---- MODULE Spec2Model ----
(***************************************************************************)
(* Scope-bound resource management with for-scopes (scope.h, usage.c).     *)
(*                                                                         *)
(* The macros SE350_SCOPE, SE350_SCOPE_EXIT, SE350_USING and               *)
(* SE350_SCOPE_BREAK are modelled as what they are: textual expansions     *)
(* into C for-statements.  Each macro is an operator that builds the       *)
(* statement tree of its expansion; a small-step machine for the C         *)
(* statements involved (for, block, if, switch, break, continue, return,   *)
(* goto, expression statements) then runs functions that use the macros.   *)
(* The variable `trace' records every externally visible call in order.    *)
(***************************************************************************)
EXTENDS Integers, Sequences, FiniteSets, TLC

VARIABLES scn, kont, env, trace, status

vars == <<scn, kont, env, trace, status>>

\* ------------------------------------------------------------------ bounds
MaxStmts == 2      \* statements in a guarded block (before + after the exit point)
MaxIter == 2       \* iterations of an enclosing loop

\* ------------------------------------------------------- C expression trees
Unbound == -1      \* value read from a name that is not in scope

Const(v) == [k |-> "const", v |-> v]
Var(n) == [k |-> "var", n |-> n]
Not(a) == [k |-> "not", a |-> a]
Lt(a, b) == [k |-> "lt", a |-> a, b |-> b]
Add(a, b) == [k |-> "add", a |-> a, b |-> b]
Assign(n, a) == [k |-> "assign", n |-> n, a |-> a]
Comma(a, b) == [k |-> "comma", a |-> a, b |-> b]
Cond(c, t, f) == [k |-> "cond", c |-> c, t |-> t, f |-> f]
Void(a) == [k |-> "void", a |-> a]
Call(f, args) == [k |-> "call", f |-> f, args |-> args]
Deref(a) == [k |-> "deref", a |-> a]
AssignDeref(a, b) == [k |-> "assignderef", a |-> a, b |-> b]
Empty == [k |-> "empty"]

\* -------------------------------------------------------- C statement trees
Decl(n, a) == [k |-> "decl", n |-> n, a |-> a]
DeclStmt(n, a) == [k |-> "declstmt", n |-> n, a |-> a]
NoInit == [k |-> "noinit"]
For(init, cond, incr, body) ==
    [k |-> "for", init |-> init, cond |-> cond, incr |-> incr, body |-> body]
Block(ss) == [k |-> "block", ss |-> ss]
ExprStmt(a) == [k |-> "expr", a |-> a]
If(c, t) == [k |-> "if", c |-> c, t |-> t]
Switch(a, cases) == [k |-> "switch", a |-> a, cases |-> cases]
Break == [k |-> "break"]
Continue == [k |-> "continue"]
Return == [k |-> "return"]
Goto(l) == [k |-> "goto", l |-> l]
Label(l) == [k |-> "label", l |-> l]

\* ------------------------------------------------------------- the macros
has_run == "_se350_loop_has_run"

\* Slips of SE350_SCOPE that its comment argues against:
\*   before_expr evaluated at every test of the condition,
\*   no inner loop to take a break,
\*   the two expressions in each other's place,
\*   the flag set at the end of the body instead of by the increment.
SE350_SCOPE_BeforeAlways(before_expr, after_expr, body) ==
    For(Decl(has_run, Const(0)),
        Comma(Void(before_expr), Not(Var(has_run))),
        Comma(Void(after_expr), Assign(has_run, Const(1))),
        For(NoInit, Not(Var(has_run)), Assign(has_run, Const(1)), body))

SE350_SCOPE_NoInnerLoop(before_expr, after_expr, body) ==
    For(Decl(has_run, Const(0)),
        Cond(Var(has_run), Const(0), Comma(Void(before_expr), Const(1))),
        Comma(Void(after_expr), Assign(has_run, Const(1))),
        body)

SE350_SCOPE_Swapped(before_expr, after_expr, body) ==
    For(Decl(has_run, Const(0)),
        Cond(Var(has_run), Const(0), Comma(Void(after_expr), Const(1))),
        Comma(Void(before_expr), Assign(has_run, Const(1))),
        For(NoInit, Not(Var(has_run)), Assign(has_run, Const(1)), body))

SE350_SCOPE_FlagInBody(before_expr, after_expr, body) ==
    For(Decl(has_run, Const(0)),
        Cond(Var(has_run), Const(0), Comma(Void(before_expr), Const(1))),
        Comma(Void(after_expr), Assign(has_run, Const(1))),
        For(NoInit, Not(Var(has_run)), Empty,
            Block(<<body, ExprStmt(Assign(has_run, Const(1)))>>)))

\* A slip of SE350_SCOPE: the `!' of the inner condition left out.
SE350_SCOPE_InnerNegated(before_expr, after_expr, body) ==
    For(Decl(has_run, Const(0)),
        Cond(Var(has_run), Const(0), Comma(Void(before_expr), Const(1))),
        Comma(Void(after_expr), Assign(has_run, Const(1))),
        For(NoInit, Var(has_run), Assign(has_run, Const(1)), body))

\* #define SE350_SCOPE(before_expr, after_expr)
\*   for (_Bool _se350_loop_has_run = 0;
\*        _se350_loop_has_run ? 0 : ((void)(before_expr), 1);
\*        ((void)(after_expr), _se350_loop_has_run = 1))
\*       for (; !_se350_loop_has_run; _se350_loop_has_run = 1)
\* `body' is the statement that follows the macro use.
SE350_SCOPE(before_expr, after_expr, body) ==
    For(Decl(has_run, Const(0)),
        Cond(Var(has_run), Const(0), Comma(Void(before_expr), Const(1))),
        Comma(Void(after_expr), Assign(has_run, Const(1))),
        For(NoInit, Not(Var(has_run)), Assign(has_run, Const(1)), body))

\* A slip of SE350_SCOPE_EXIT: after_expr passed for both expressions.
SE350_SCOPE_EXIT_AfterTwice(after_expr, body) == SE350_SCOPE(after_expr, after_expr, body)

\* #define SE350_SCOPE_EXIT(after_expr) SE350_SCOPE(0, after_expr)
SE350_SCOPE_EXIT(after_expr, body) == SE350_SCOPE(Const(0), after_expr, body)

\* Slips of SE350_USING: after_expr evaluated by the innermost loop, where a
\* break skips it; after_expr evaluated by the outermost loop, where the
\* declared name is no longer in scope.
SE350_USING_AfterInner(decl, after_expr, body) ==
    For(Decl(has_run, Const(0)), Not(Var(has_run)), Empty,
        For(decl, Not(Var(has_run)), Assign(has_run, Const(1)),
            For(NoInit, Not(Var(has_run)),
                Comma(Void(after_expr), Assign(has_run, Const(1))), body)))

SE350_USING_AfterOutside(decl, after_expr, body) ==
    For(Decl(has_run, Const(0)), Not(Var(has_run)),
        Comma(Void(after_expr), Assign(has_run, Const(1))),
        For(decl, Not(Var(has_run)), Empty,
            For(NoInit, Not(Var(has_run)), Assign(has_run, Const(1)), body)))

\* A slip of SE350_USING: the flag loop and the declaration loop only, the
\* flag set by the outer increment, and no loop left to take a break.
SE350_USING_TwoLoops(decl, after_expr, body) ==
    For(Decl(has_run, Const(0)), Not(Var(has_run)), Assign(has_run, Const(1)),
        For(decl, Not(Var(has_run)),
            Comma(Void(after_expr), Assign(has_run, Const(1))), body))

\* #define SE350_USING(decl, after_expr)
\*   for (_Bool _se350_loop_has_run = 0; !_se350_loop_has_run;)
\*       for (decl; !_se350_loop_has_run; ((void)(after_expr), _se350_loop_has_run = 1))
\*           for (; !_se350_loop_has_run; _se350_loop_has_run = 1)
SE350_USING(decl, after_expr, body) ==
    For(Decl(has_run, Const(0)), Not(Var(has_run)), Empty,
        For(decl, Not(Var(has_run)),
            Comma(Void(after_expr), Assign(has_run, Const(1))),
            For(NoInit, Not(Var(has_run)), Assign(has_run, Const(1)), body)))

\* A slip of SE350_SCOPE_BREAK: leaving by return.
SE350_SCOPE_BREAK_Return == Return

\* #define SE350_SCOPE_BREAK break
SE350_SCOPE_BREAK == Break

\* #define INTERRUPT_FREE_BLOCK SE350_SCOPE(__disable_irq(), __enable_irq())
INTERRUPT_FREE_BLOCK(body) ==
    SE350_SCOPE(Call("__disable_irq", <<>>), Call("__enable_irq", <<>>), body)

\* --------------------------------------------------- environment (scoping)
\* env is the stack of the names in scope, innermost last.  A name resolves
\* to its innermost declaration, so a nested _se350_loop_has_run shadows
\* the one of an enclosing guard.
\* A slip of name resolution: the outermost declaration of a name, as if an
\* inner declaration did not shadow it.
MaxOf_Outermost(S) == CHOOSE i \in S : \A j \in S : i <= j

MaxOf(S) == CHOOSE i \in S : \A j \in S : j <= i
MinOf(S) == CHOOSE i \in S : \A j \in S : i <= j

Slots(e, n) == {i \in 1..Len(e) : e[i].n = n}

Lookup(e, n) == IF Slots(e, n) = {} THEN Unbound ELSE e[MaxOf(Slots(e, n))].v

Store(e, n, v) ==
    IF Slots(e, n) = {} THEN e ELSE [e EXCEPT ![MaxOf(Slots(e, n))].v = v]

Truncate(e, d) == SubSeq(e, 1, d)

\* The memory blocks the allocator hands out are cells of the outermost
\* scope; block h is the cell named MemName(h).
MemName(h) ==
    CASE h = 1 -> "mem1" [] h = 2 -> "mem2" [] h = 3 -> "mem3"
      [] h = 4 -> "mem4" [] OTHER -> "mem_invalid"

Memory == << [n |-> "mem1", v |-> 0], [n |-> "mem2", v |-> 0],
             [n |-> "mem3", v |-> 0], [n |-> "mem4", v |-> 0] >>

\* ------------------------------------------------------------------ calls
\* An event of the trace: the function called and the values it was given.
Ev(f, v) == <<f, <<v>>>>

Count(tr, f) == Cardinality({i \in 1..Len(tr) : tr[i][1] = f})

\* A call appends what it does to the trace and yields a value.
\*   request_memory_block()  hands out a fresh block
\*   log_release(p)          printf("Freeing pointer\n"); release_memory_block(p);
\*   noop()                  does nothing
\*   any other f(a, ...)     is observed as <<f, <<a, ...>>>> and yields a
CallFn(f, r) ==
    CASE f = "request_memory_block" ->
           LET h == Count(r.tr, "request_memory_block") + 1
           IN [v |-> h, env |-> r.env, tr |-> Append(r.tr, Ev(f, h))]
      [] f = "log_release" ->
           [v |-> 0, env |-> r.env,
            tr |-> r.tr \o << <<"printf", <<>> >>,
                              <<"release_memory_block", r.vs>> >>]
      [] f = "noop" -> [v |-> 0, env |-> r.env, tr |-> r.tr]
      [] OTHER -> [v |-> IF r.vs = <<>> THEN 0 ELSE r.vs[1], env |-> r.env,
                   tr |-> Append(r.tr, <<f, r.vs>>)]

\* ------------------------------------------------- expression evaluation
RECURSIVE Eval(_, _, _)
RECURSIVE EvalArgs(_, _, _)

\* Evaluates the arguments of a call, left to right.
EvalArgs(as, en, tr) ==
    IF as = <<>> THEN [vs |-> <<>>, env |-> en, tr |-> tr]
    ELSE LET a == Eval(as[1], en, tr)
             r == EvalArgs(Tail(as), a.env, a.tr)
         IN [r EXCEPT !.vs = <<a.v>> \o @]

\* Evaluates e in environment en after trace tr: the value, the environment
\* and the trace that result.
Eval(e, en, tr) ==
    CASE e.k = "const" -> [v |-> e.v, env |-> en, tr |-> tr]
      [] e.k = "empty" -> [v |-> 0, env |-> en, tr |-> tr]
      [] e.k = "var" -> [v |-> Lookup(en, e.n), env |-> en, tr |-> tr]
      [] e.k = "not" ->
           LET r == Eval(e.a, en, tr)
           IN [r EXCEPT !.v = IF r.v = 0 THEN 1 ELSE 0]
      [] e.k = "lt" ->
           LET a == Eval(e.a, en, tr)
               b == Eval(e.b, a.env, a.tr)
           IN [b EXCEPT !.v = IF a.v < b.v THEN 1 ELSE 0]
      [] e.k = "add" ->
           LET a == Eval(e.a, en, tr)
               b == Eval(e.b, a.env, a.tr)
           IN [b EXCEPT !.v = a.v + b.v]
      [] e.k = "assign" ->
           LET r == Eval(e.a, en, tr)
           IN [r EXCEPT !.env = Store(r.env, e.n, r.v)]
      [] e.k = "deref" ->
           LET r == Eval(e.a, en, tr)
           IN [r EXCEPT !.v = Lookup(r.env, MemName(r.v))]
      [] e.k = "assignderef" ->
           LET a == Eval(e.a, en, tr)
               b == Eval(e.b, a.env, a.tr)
           IN [b EXCEPT !.env = Store(b.env, MemName(a.v), b.v)]
      [] e.k = "comma" ->
           LET a == Eval(e.a, en, tr)
           IN Eval(e.b, a.env, a.tr)
      [] e.k = "cond" ->
           LET c == Eval(e.c, en, tr)
           IN IF c.v # 0 THEN Eval(e.t, c.env, c.tr) ELSE Eval(e.f, c.env, c.tr)
      [] e.k = "void" ->
           LET r == Eval(e.a, en, tr)
           IN [r EXCEPT !.v = 0]
      [] e.k = "call" ->
           LET r == EvalArgs(e.args, en, tr)
           IN CallFn(e.f, r)

\* ---------------------------------------------------------- the machine
\* A configuration c = [kont, env, trace, status].  kont is the control
\* stack, innermost first.  A frame is either the statements still to run
\* in a block or switch body, or a for-statement that is between its body
\* and its next condition.  depth is the size of env when the frame began.
Cfg(k, e, tr, st) == [kont |-> k, env |-> e, trace |-> tr, status |-> st]

Top(c) == c.kont[1]
Cur(c) == Top(c).ss[1]
Rest(c) == <<[Top(c) EXCEPT !.ss = Tail(@)]>> \o Tail(c.kont)
Below(c, j) == SubSeq(c.kont, j + 1, Len(c.kont))

StmtsFrame(ss, d) == [t |-> "stmts", ss |-> ss, depth |-> d]
SwitchFrame(ss, d) == [t |-> "switch", ss |-> ss, depth |-> d]
LoopFrame(f, d) == [t |-> "loop", f |-> f, depth |-> d, phase |-> "cond"]

\* What the machine does next.
Kind(c) ==
    IF c.status # "running" THEN "halt"
    ELSE IF Top(c).t = "loop" THEN Top(c).phase
    ELSE IF Top(c).ss = <<>> THEN "exit"
    ELSE Cur(c).k

\* for (init; ...; ...): the init clause runs once and its declaration
\* opens a scope that lasts as long as the loop.
DoForInit(c) ==
    LET s == Cur(c)
        r == IF s.init.k = "decl" THEN Eval(s.init.a, c.env, c.trace)
             ELSE [v |-> 0, env |-> c.env, tr |-> c.trace]
        e2 == IF s.init.k = "decl"
              THEN Append(r.env, [n |-> s.init.n, v |-> r.v]) ELSE r.env
    IN Cfg(<<LoopFrame(s, Len(c.env))>> \o Rest(c), e2, r.tr, "running")

\* for (...; cond; ...): the condition is evaluated before every pass; the
\* body runs if it is nonzero, else the loop ends and its scope closes.
DoForCond(c) ==
    LET fr == Top(c)
        r == Eval(fr.f.cond, c.env, c.trace)
    IN IF r.v # 0
       THEN Cfg(<<StmtsFrame(<<fr.f.body>>, Len(r.env)),
                  [fr EXCEPT !.phase = "incr"]>> \o Tail(c.kont),
                r.env, r.tr, "running")
       ELSE Cfg(Tail(c.kont), Truncate(r.env, fr.depth), r.tr, "running")

\* for (...; ...; incr): the increment is evaluated after every pass of the
\* body, then the condition again.
DoForIncr(c) ==
    LET fr == Top(c)
        r == Eval(fr.f.incr, c.env, c.trace)
    IN Cfg(<<[fr EXCEPT !.phase = "cond"]>> \o Tail(c.kont), r.env, r.tr, "running")

DoExpr(c) ==
    LET r == Eval(Cur(c).a, c.env, c.trace)
    IN Cfg(Rest(c), r.env, r.tr, "running")

DoDeclStmt(c) ==
    LET r == Eval(Cur(c).a, c.env, c.trace)
    IN Cfg(Rest(c), Append(r.env, [n |-> Cur(c).n, v |-> r.v]), r.tr, "running")

DoEnterBlock(c) ==
    Cfg(<<StmtsFrame(Cur(c).ss, Len(c.env))>> \o Rest(c), c.env, c.trace, "running")

\* The end of a block or switch body; the end of the function body ends
\* the function.
DoExitBlock(c) ==
    Cfg(Tail(c.kont), Truncate(c.env, Top(c).depth), c.trace,
        IF Tail(c.kont) = <<>> THEN "done" ELSE "running")

DoIf(c) ==
    LET r == Eval(Cur(c).c, c.env, c.trace)
    IN IF r.v # 0
       THEN Cfg(<<[Top(c) EXCEPT !.ss = <<Cur(c).t>> \o Tail(@)]>> \o Tail(c.kont),
                r.env, r.tr, "running")
       ELSE Cfg(Rest(c), r.env, r.tr, "running")

RECURSIVE CasesFrom(_, _)
CasesFrom(cases, i) ==
    IF i > Len(cases) THEN <<>> ELSE cases[i].ss \o CasesFrom(cases, i + 1)

\* switch (a) { case v: ... }: control enters at the first matching case
\* and falls through the cases after it.
DoSwitch(c) ==
    LET r == Eval(Cur(c).a, c.env, c.trace)
        M == {i \in 1..Len(Cur(c).cases) : Cur(c).cases[i].v = r.v}
    IN IF M = {} THEN Cfg(Rest(c), r.env, r.tr, "running")
       ELSE Cfg(<<SwitchFrame(CasesFrom(Cur(c).cases, MinOf(M)), Len(r.env))>> \o Rest(c),
                r.env, r.tr, "running")

\* break ends the innermost enclosing for or switch statement.
DoBreak(c) ==
    LET j == MinOf({i \in 1..Len(c.kont) : c.kont[i].t \in {"loop", "switch"}})
    IN Cfg(Below(c, j), Truncate(c.env, c.kont[j].depth), c.trace, "running")

\* continue ends the current pass of the innermost enclosing for statement:
\* its increment is next.
DoContinue(c) ==
    LET j == MinOf({i \in 1..Len(c.kont) : c.kont[i].t = "loop"})
        fr == c.kont[j]
    IN Cfg(<<[fr EXCEPT !.phase = "incr"]>> \o Below(c, j),
           Truncate(c.env, c.kont[j - 1].depth), c.trace, "running")

\* return leaves the function at once.
DoReturn(c) == Cfg(<<>>, <<>>, c.trace, "returned")

HasLabel(fr, l) ==
    /\ fr.t \in {"stmts", "switch"}
    /\ \E i \in 1..Len(fr.ss) : fr.ss[i] = Label(l)

\* goto l, for a label in an enclosing block of the same function.
DoGoto(c) ==
    LET l == Cur(c).l
        j == MinOf({i \in 1..Len(c.kont) : HasLabel(c.kont[i], l)})
        fr == c.kont[j]
        pos == MinOf({i \in 1..Len(fr.ss) : fr.ss[i] = Label(l)})
    IN Cfg(<<[fr EXCEPT !.ss = SubSeq(@, pos, Len(@))]>> \o Below(c, j),
           Truncate(c.env, IF j = 1 THEN Len(c.env) ELSE c.kont[j - 1].depth),
           c.trace, "running")

DoLabel(c) == Cfg(Rest(c), c.env, c.trace, "running")

Step(c) ==
    CASE Kind(c) = "for" -> DoForInit(c)
      [] Kind(c) = "cond" -> DoForCond(c)
      [] Kind(c) = "incr" -> DoForIncr(c)
      [] Kind(c) = "expr" -> DoExpr(c)
      [] Kind(c) = "declstmt" -> DoDeclStmt(c)
      [] Kind(c) = "block" -> DoEnterBlock(c)
      [] Kind(c) = "exit" -> DoExitBlock(c)
      [] Kind(c) = "if" -> DoIf(c)
      [] Kind(c) = "switch" -> DoSwitch(c)
      [] Kind(c) = "break" -> DoBreak(c)
      [] Kind(c) = "continue" -> DoContinue(c)
      [] Kind(c) = "return" -> DoReturn(c)
      [] Kind(c) = "goto" -> DoGoto(c)
      [] Kind(c) = "label" -> DoLabel(c)
      [] OTHER -> c

\* The function run to its end.
RECURSIVE Run(_)
Run(c) == IF c.status # "running" THEN c ELSE Run(Step(c))

\* ------------------------------------------------- functions that use the macros
\* A scenario is one function using the macros and one way through it:
\*   shape  where the guard stands: "plain" (alone in the function), "loop"
\*          (in the body of a for loop of n passes), "nested" (in the block
\*          of another guard), "stacked" (two SE350_USING before one block),
\*          "setx" (SE350_SCOPE(x = 1, x = 2)), "main" (main of usage.c)
\*   kind   the macro of the guard, outer the macro of the enclosing guard
\*   x      how the guarded block is left
\*   nb/na  the statements of the block before / after the point of exit
\*   n, k   passes of the enclosing loop; the exit is taken in the first k
Kinds == {"SCOPE", "EXIT", "USING"}
Exits == {"fall", "break", "continue", "return", "goto", "loopbreak", "switchbreak"}
Splits == {p \in (0..MaxStmts) \X (0..MaxStmts) : p[1] + p[2] <= MaxStmts}
Passes(x) == {p \in (0..MaxIter) \X (0..MaxIter) :
                 /\ p[2] <= p[1]
                 /\ (x = "fall" => p[2] = 0)}

Scn(shape, kind, outer, x, sp, ps) ==
    [shape |-> shape, kind |-> kind, outer |-> outer, x |-> x,
     nb |-> sp[1], na |-> sp[2], n |-> ps[1], k |-> ps[2]]

Scenarios ==
    {Scn("plain", kd, "none", x, sp, <<0, 0>>) : kd \in Kinds, x \in Exits, sp \in Splits}
    \cup UNION {{Scn("loop", kd, "none", x, sp, ps) : kd \in Kinds, sp \in Splits, ps \in Passes(x)}
                : x \in Exits}
    \cup {Scn("nested", kd[1], kd[2], x, sp, <<0, 0>>) :
            kd \in Kinds \X Kinds, x \in Exits, sp \in Splits}
    \cup {Scn("stacked", "USING", "USING", x, sp, <<0, 0>>) : x \in Exits, sp \in Splits}
    \cup {Scn("setx", "SCOPE", "none", x, sp, <<0, 0>>) : x \in Exits, sp \in Splits}
    \cup {Scn("main", "none", "none", "fall", <<0, 0>>, <<0, 0>>)}

\* The guard under test is guard 1, a guard around it is guard 2.
PName(id) == IF id = 1 THEN "p_in" ELSE "p_out"

\* One use of a macro, with actions that are observed as before(id) and
\* after(id).  The SE350_USING declaration binds what before(id) yields, and
\* its after-action hands the bound name back.
Guard(kind, id, body) ==
    CASE kind = "SCOPE" ->
           SE350_SCOPE(Call("before", <<Const(id)>>), Call("after", <<Const(id)>>), body)
      [] kind = "EXIT" ->
           SE350_SCOPE_EXIT(Call("after", <<Const(id)>>), body)
      [] kind = "NOOP" ->
           SE350_SCOPE(Call("noop", <<>>), Call("after", <<Const(id)>>), body)
      [] kind = "USING" ->
           SE350_USING(Decl(PName(id), Call("before", <<Const(id)>>)),
                       Call("after", <<Var(PName(id))>>), body)

\* The statements from..to of the guarded block.
Stmts(s, from, to) ==
    [j \in 1..(to - from + 1) |->
        ExprStmt(Call("stmt", <<IF s.shape = "setx" THEN Var("x") ELSE Const(from + j - 1)>>))]

ExitStmt(x) ==
    CASE x = "break" -> SE350_SCOPE_BREAK
      [] x = "continue" -> Continue
      [] x = "return" -> Return
      [] x = "goto" -> Goto("out")
      [] x = "loopbreak" ->
           For(Decl("j", Const(0)), Lt(Var("j"), Const(1)),
               Assign("j", Add(Var("j"), Const(1))), Block(<<SE350_SCOPE_BREAK>>))
      [] x = "switchbreak" ->
           Switch(Const(1), <<[v |-> 1, ss |-> <<SE350_SCOPE_BREAK>>]>>)

\* if (earlyCondition) { SE350_SCOPE_BREAK; } in a loop: early in the first k passes.
ExitStmts(s) ==
    IF s.x = "fall" THEN <<>>
    ELSE IF s.shape = "loop"
         THEN <<If(Lt(Var("i"), Const(s.k)), Block(<<ExitStmt(s.x)>>))>>
         ELSE <<ExitStmt(s.x)>>

Uses(s) ==
    IF s.shape = "stacked"
    THEN <<ExprStmt(Call("use", <<Var(PName(2)), Var(PName(1))>>))>>
    ELSE <<>>

GuardedBlock(s) ==
    Block(Uses(s) \o Stmts(s, 1, s.nb) \o ExitStmts(s)
          \o Stmts(s, s.nb + 1, s.nb + s.na) \o Uses(s))

OutLabel(s) == IF s.x = "goto" THEN <<Label("out")>> ELSE <<>>

Post(a) == ExprStmt(Call("post", <<a>>))

\* int main(void) of usage.c.
Main ==
    << INTERRUPT_FREE_BLOCK(Block(<<>>)),
       DeclStmt("p2", Call("request_memory_block", <<>>)),
       SE350_SCOPE_EXIT(Call("log_release", <<Var("p2")>>),
           Block(<< ExprStmt(AssignDeref(Var("p2"), Const(6))),
                    ExprStmt(Call("printf", <<Deref(Var("p2"))>>)) >>)),
       SE350_USING(Decl("p3", Call("request_memory_block", <<>>)),
                   Call("log_release", <<Var("p3")>>),
           Block(<< ExprStmt(AssignDeref(Var("p3"), Const(7))),
                    ExprStmt(Call("printf", <<Deref(Var("p3"))>>)) >>)),
       SE350_USING(Decl("p4", Call("request_memory_block", <<>>)),
                   Call("log_release", <<Var("p4")>>),
           SE350_USING(Decl("p5", Call("request_memory_block", <<>>)),
                       Call("log_release", <<Var("p5")>>),
               Block(<< ExprStmt(AssignDeref(Var("p4"), Const(8))),
                        ExprStmt(AssignDeref(Var("p5"), Const(9))),
                        ExprStmt(Call("printf", <<Deref(Var("p4")), Deref(Var("p5"))>>)) >>))) >>

Program(s) ==
    CASE s.shape = "plain" ->
           <<Guard(s.kind, 1, GuardedBlock(s))>> \o OutLabel(s) \o <<Post(Const(0))>>
      [] s.shape = "setx" ->
           <<DeclStmt("x", Const(0)),
             SE350_SCOPE(Assign("x", Const(1)), Assign("x", Const(2)), GuardedBlock(s))>>
           \o OutLabel(s) \o <<Post(Var("x"))>>
      [] s.shape = "loop" ->
           << For(Decl("i", Const(0)), Lt(Var("i"), Const(s.n)),
                  Assign("i", Add(Var("i"), Const(1))),
                  Block(<<Guard(s.kind, 1, GuardedBlock(s))>> \o OutLabel(s)
                        \o <<Post(Var("i"))>>)),
              ExprStmt(Call("end", <<>>)) >>
      [] s.shape = "nested" ->
           << Guard(s.outer, 2,
                    Block(<<ExprStmt(Call("outer_stmt", <<Const(1)>>)),
                            Guard(s.kind, 1, GuardedBlock(s))>>
                          \o OutLabel(s)
                          \o <<ExprStmt(Call("outer_stmt", <<Const(2)>>))>>)),
              Post(Const(0)) >>
      [] s.shape = "stacked" ->
           <<Guard("USING", 2, Guard("USING", 1, GuardedBlock(s)))>>
           \o OutLabel(s) \o <<Post(Const(0))>>
      [] s.shape = "main" -> Main

\* The names in scope when the function body begins.
Locals(s) ==
    CASE s.shape = "main" -> Memory
      [] OTHER -> <<>>

Start(s) == Cfg(<<StmtsFrame(Program(s), Len(Locals(s)))>>, Locals(s), <<>>, "running")

\* ------------------------------------------------------------ the actions
cfg == Cfg(kont, env, trace, status)

Take(c) ==
    /\ kont' = c.kont
    /\ env' = c.env
    /\ trace' = c.trace
    /\ status' = c.status
    /\ scn' = scn

Init ==
    /\ scn \in Scenarios
    /\ kont = Start(scn).kont
    /\ env = Start(scn).env
    /\ trace = Start(scn).trace
    /\ status = Start(scn).status

ForInit == Kind(cfg) = "for" /\ Take(DoForInit(cfg))
ForCond == Kind(cfg) = "cond" /\ Take(DoForCond(cfg))
ForIncr == Kind(cfg) = "incr" /\ Take(DoForIncr(cfg))
Expr == Kind(cfg) = "expr" /\ Take(DoExpr(cfg))
Declare == Kind(cfg) = "declstmt" /\ Take(DoDeclStmt(cfg))
EnterBlock == Kind(cfg) = "block" /\ Take(DoEnterBlock(cfg))
ExitBlock == Kind(cfg) = "exit" /\ Take(DoExitBlock(cfg))
IfStmt == Kind(cfg) = "if" /\ Take(DoIf(cfg))
SwitchStmt == Kind(cfg) = "switch" /\ Take(DoSwitch(cfg))
BreakStmt == Kind(cfg) = "break" /\ Take(DoBreak(cfg))
ContinueStmt == Kind(cfg) = "continue" /\ Take(DoContinue(cfg))
ReturnStmt == Kind(cfg) = "return" /\ Take(DoReturn(cfg))
GotoStmt == Kind(cfg) = "goto" /\ Take(DoGoto(cfg))
LabelStmt == Kind(cfg) = "label" /\ Take(DoLabel(cfg))

Next ==
    \/ ForInit
    \/ ForCond
    \/ ForIncr
    \/ Expr
    \/ Declare
    \/ EnterBlock
    \/ ExitBlock
    \/ IfStmt
    \/ SwitchStmt
    \/ BreakStmt
    \/ ContinueStmt
    \/ ReturnStmt
    \/ GotoStmt
    \/ LabelStmt

Spec == Init /\ [][Next]_vars

\* ---------------------------------------------------- reading the trace
IsPrefix(a, b) == Len(a) <= Len(b) /\ a = SubSeq(b, 1, Len(a))

At(f, v) == {i \in 1..Len(trace) : trace[i] = Ev(f, v)}
Num(f, v) == Cardinality(At(f, v))
StmtAt == {i \in 1..Len(trace) : trace[i][1] = "stmt"}
PostAt == {i \in 1..Len(trace) : trace[i][1] = "post"}

\* Shapes in which the guard under test is activated once.
Single == {"plain", "nested", "stacked"}

\* The first event of the statement that follows the construct of guard 1.
Follower(s) ==
    CASE s.shape = "nested" -> Ev("outer_stmt", 2)
      [] s.shape = "stacked" -> Ev("after", 2)
      [] OTHER -> Ev("post", 0)
FollowAt == {i \in 1..Len(trace) : trace[i] = Follower(scn)}

\* The events of statements from..to of the guarded block.
StmtEvents(from, to) == [j \in 1..(to - from + 1) |-> Ev("stmt", from + j - 1)]

Halted == status \in {"done", "returned"}

\* ---------------------------------------------------------------- C1
\* C1: a use of SE350_SCOPE(before, after){block} whose block falls through
\* evaluates before exactly once, before the first statement of the block,
\* and after exactly once, after the last statement of the block and before
\* any statement that follows the construct.  With before x = 1 and after
\* x = 2, every statement of the block sees x = 1 and the statement after
\* the construct sees x = 2.  In main, __disable_irq() and __enable_irq()
\* bracket the interrupt-free block.
C1_ScopeFallThrough ==
    /\ (scn.kind = "SCOPE" /\ scn.x = "fall" /\ scn.shape \in {"plain", "nested"}) =>
          /\ Num("before", 1) <= 1
          /\ Num("after", 1) <= 1
          /\ \A i \in StmtAt : \E b \in At("before", 1) : b < i
          /\ \A a \in At("after", 1) :
                /\ Cardinality(StmtAt) = scn.nb + scn.na
                /\ \A i \in StmtAt : i < a
          /\ \A p \in FollowAt : \E a \in At("after", 1) : a < p
          /\ status # "returned"
          /\ status = "done" => Num("before", 1) = 1 /\ Num("after", 1) = 1
    /\ (scn.shape = "setx" /\ scn.x = "fall") =>
          /\ \A i \in StmtAt : trace[i] = Ev("stmt", 1)
          /\ \A p \in PostAt : trace[p] = Ev("post", 2) /\ Cardinality(StmtAt) = scn.nb + scn.na
          /\ status = "done" => Cardinality(PostAt) = 1
    /\ scn.shape = "main" =>
          \/ IsPrefix(trace, << <<"__disable_irq", <<>> >>, <<"__enable_irq", <<>> >> >>)
          \/ IsPrefix(<< <<"__disable_irq", <<>> >>, <<"__enable_irq", <<>> >> >>, trace)

C1_Witness ==
    /\ scn.shape = "setx" /\ scn.x = "fall" /\ scn.nb + scn.na = MaxStmts
    /\ status = "done"
    /\ trace = [j \in 1..MaxStmts |-> Ev("stmt", 1)] \o <<Ev("post", 2)>>

\* ---------------------------------------------------------------- C2
\* C2: when SE350_SCOPE_BREAK executes directly in the guarded block of
\* SE350_SCOPE, SE350_SCOPE_EXIT or SE350_USING, no statement of the block
\* after the break executes and the after-action runs exactly once before
\* control continues after the construct.
C2_BreakRunsAfterOnce ==
    /\ (scn.x = "break" /\ scn.shape \in Single) =>
          /\ \A i \in StmtAt : trace[i][2][1] <= scn.nb
          /\ Num("after", 1) <= 1
          /\ \A p \in FollowAt : \E a \in At("after", 1) : a < p
          /\ status # "returned"
          /\ status = "done" => Num("after", 1) = 1 /\ FollowAt # {}
    /\ (scn.x = "break" /\ scn.shape = "setx") =>
          /\ Cardinality(StmtAt) <= scn.nb
          /\ \A p \in PostAt : trace[p] = Ev("post", 2)
          /\ status # "returned"

C2_Witness ==
    /\ scn.x = "break" /\ scn.shape = "plain" /\ scn.kind = "USING"
    /\ scn.nb = 1 /\ scn.na = 1
    /\ status = "done"
    /\ trace = <<Ev("before", 1), Ev("stmt", 1), Ev("after", 1), Ev("post", 0)>>

\* ---------------------------------------------------------------- C3
\* C3: when the guarded block executes return, the after-action is never
\* evaluated (nor that of an enclosing guard), nothing after the construct
\* runs, and before / the declaration has run exactly once.
C3_ReturnSkipsAfter ==
    (scn.x = "return" /\ (scn.shape \in Single \cup {"setx"} \/ (scn.shape = "loop" /\ scn.k > 0))) =>
        /\ Num("after", 1) = 0
        /\ Num("after", 2) = 0
        /\ Num("before", 1) <= 1
        /\ PostAt = {}
        /\ \A i \in StmtAt : scn.shape # "setx" => trace[i][2][1] <= scn.nb
        /\ \A i \in StmtAt : scn.shape = "setx" => trace[i] = Ev("stmt", 1)
        /\ status # "done"
        /\ (status = "returned" /\ scn.kind # "EXIT" /\ scn.shape # "setx") =>
              Num("before", 1) = 1

C3_Witness ==
    /\ scn.x = "return" /\ scn.shape = "nested"
    /\ scn.kind = "USING" /\ scn.outer = "SCOPE" /\ scn.nb = 1
    /\ status = "returned"
    /\ trace = <<Ev("before", 2), Ev("outer_stmt", 1), Ev("before", 1), Ev("stmt", 1)>>

\* ---------------------------------------------------------------- C4
\* C4: a guard in a loop of n passes, each block left by fall-through or
\* SE350_SCOPE_BREAK, runs before and after n times each, strictly
\* alternating before, after, before, after, ...; every pass has its pair
\* complete when the statement after the guard runs.
IsBA(e) == e \in {Ev("before", 1), Ev("after", 1)}
BA == SelectSeq(trace, IsBA)

C4_LoopAlternates ==
    (scn.shape = "loop" /\ scn.kind \in {"SCOPE", "USING"} /\ scn.x \in {"fall", "break"}) =>
        /\ \A j \in 1..Len(BA) :
              BA[j] = IF j % 2 = 1 THEN Ev("before", 1) ELSE Ev("after", 1)
        /\ Len(BA) <= 2 * scn.n
        /\ \A p \in PostAt :
              LET i == trace[p][2][1]
              IN /\ Cardinality({b \in At("before", 1) : b < p}) = i + 1
                 /\ Cardinality({a \in At("after", 1) : a < p}) = i + 1
        /\ status # "returned"
        /\ status = "done" => Len(BA) = 2 * scn.n /\ Cardinality(PostAt) = scn.n

C4_Witness ==
    /\ scn.shape = "loop" /\ scn.kind = "USING" /\ scn.x = "break"
    /\ scn.n = MaxIter /\ scn.k = 1 /\ scn.n > scn.k
    /\ status = "done"
    /\ Len(BA) = 2 * MaxIter

\* ---------------------------------------------------------------- C5
\* C5: two SE350_USING stacked before one block (outer binds a, inner binds
\* b) give, on normal exit, acquire(a), acquire(b), the block, release(b),
\* release(a), each once, and both names are bound throughout the block.
\* In the harness a is 2 and b is 1; in main a is p4 and b is p5.
StackedTrace(s) ==
    <<Ev("before", 2), Ev("before", 1), <<"use", <<2, 1>> >> >>
    \o StmtEvents(1, s.nb + s.na)
    \o << <<"use", <<2, 1>> >>, Ev("after", 1), Ev("after", 2), Ev("post", 0)>>

MainTrace ==
    << <<"__disable_irq", <<>> >>, <<"__enable_irq", <<>> >>,
       Ev("request_memory_block", 1), Ev("printf", 6),
       <<"printf", <<>> >>, Ev("release_memory_block", 1),
       Ev("request_memory_block", 2), Ev("printf", 7),
       <<"printf", <<>> >>, Ev("release_memory_block", 2),
       Ev("request_memory_block", 3), Ev("request_memory_block", 4),
       <<"printf", <<8, 9>> >>,
       <<"printf", <<>> >>, Ev("release_memory_block", 4),
       <<"printf", <<>> >>, Ev("release_memory_block", 3) >>

C5_StackedOrder ==
    /\ (scn.shape = "stacked" /\ scn.x = "fall") =>
          /\ IsPrefix(trace, StackedTrace(scn))
          /\ status # "returned"
          /\ status = "done" => trace = StackedTrace(scn)
    /\ scn.shape = "main" =>
          /\ IsPrefix(trace, MainTrace)
          /\ status # "returned"
          /\ status = "done" => trace = MainTrace

C5_Witness ==
    /\ scn.shape = "main"
    /\ status = "done"
    /\ SubSeq(trace, 11, 17) =
         << Ev("request_memory_block", 3), Ev("request_memory_block", 4),
            <<"printf", <<8, 9>> >>,
            <<"printf", <<>> >>, Ev("release_memory_block", 4),
            <<"printf", <<>> >>, Ev("release_memory_block", 3) >>

\* ---------------------------------------------------------------- C6
\* C6: SE350_SCOPE_BREAK in the block of a guard that stands in a loop or
\* in the block of another guard ends only that block: the pass of the loop
\* goes on with the statement after the guard, the block of the enclosing
\* guard goes on, and the enclosing guard's after-action does not run then.
C6_BreakIsInnermost ==
    /\ (scn.shape = "loop" /\ scn.x = "break") =>
          /\ \A a \in At("after", 1) :
                a < Len(trace) =>
                   trace[a + 1] = Ev("post", Cardinality({p \in PostAt : p < a}))
          /\ \A p \in PostAt : trace[p][2][1] = Cardinality({q \in PostAt : q < p})
          /\ status # "returned"
          /\ status = "done" =>
                /\ Cardinality(PostAt) = scn.n
                /\ trace[Len(trace)] = <<"end", <<>> >>
    /\ (scn.shape = "nested" /\ scn.x = "break") =>
          /\ \A a \in At("after", 1) :
                /\ a < Len(trace) => trace[a + 1] = Ev("outer_stmt", 2)
                /\ \A o \in At("after", 2) : a < o
          /\ \A o \in At("after", 2) : \E m \in At("outer_stmt", 2) : m < o
          /\ status # "returned"
          /\ status = "done" =>
                Num("after", 1) = 1 /\ Num("outer_stmt", 2) = 1 /\ Num("after", 2) = 1

C6_Witness ==
    /\ scn.shape = "nested" /\ scn.x = "break"
    /\ scn.kind = "SCOPE" /\ scn.outer = "USING" /\ scn.nb = 0 /\ scn.na = 1
    /\ status = "done"
    /\ trace = <<Ev("before", 2), Ev("outer_stmt", 1), Ev("before", 1), Ev("after", 1),
                 Ev("outer_stmt", 2), Ev("after", 2), Ev("post", 0)>>

\* ---------------------------------------------------------------- C7
\* C7: SE350_SCOPE_BREAK placed anywhere inside a guarded block, also inside
\* a for loop or a switch nested in the block, stops the rest of the whole
\* guarded block: no later statement of the guarded block runs.
C7_BreakAnywhereEndsBlock ==
    (scn.x \in {"loopbreak", "switchbreak"} /\ scn.shape \in Single) =>
        \A i \in StmtAt : trace[i][2][1] <= scn.nb

\* ---------------------------------------------------------------- C8
\* C8: the after-action runs exactly once on every path that leaves the
\* guarded block other than return: fall-through, break, continue, and a
\* goto to a label outside the construct.
C8_AfterOnEveryExit ==
    (scn.x \in {"fall", "break", "continue", "goto"} /\ scn.shape \in Single) =>
        /\ Num("after", 1) <= 1
        /\ status = "done" => Num("after", 1) = 1

\* ---------------------------------------------------------------- C9
\* C9: SE350_SCOPE_EXIT(after){block} behaves as SE350_SCOPE(noop, after)
\* {block}: for every block and way out, the same events in the same order
\* and the same way of ending, and no before event at all.
Reference(s) == [s EXCEPT !.kind = "NOOP"]

C9_ScopeExitIsScopeNoop ==
    (scn.kind = "EXIT" /\ scn.shape \in {"plain", "loop", "nested"}) =>
        LET ref == Run(Start(Reference(scn)))
        IN /\ IsPrefix(trace, ref.trace)
           /\ Halted => trace = ref.trace /\ status = ref.status
           /\ Num("before", 1) = 0

C9_Witness ==
    /\ scn.kind = "EXIT" /\ scn.shape = "loop" /\ scn.x = "break"
    /\ scn.n = 2 /\ scn.k = 1 /\ scn.nb = 1 /\ scn.na = 1
    /\ status = "done"
    /\ trace = <<Ev("stmt", 1), Ev("after", 1), Ev("post", 0),
                 Ev("stmt", 1), Ev("stmt", 2), Ev("after", 1), Ev("post", 1),
                 <<"end", <<>> >> >>

\* ---------------------------------------------------------------- C10
\* C10: continue executed directly in the block of a guard that stands in a
\* loop skips the rest of the guarded block, runs the after-action once, and
\* goes on with the statement after the guard in the same pass of the loop.
RECURSIVE ContinuePasses(_, _)
ContinuePasses(s, i) ==
    IF i >= s.n THEN << <<"end", <<>> >> >>
    ELSE (IF s.kind = "EXIT" THEN <<>> ELSE <<Ev("before", 1)>>)
         \o StmtEvents(1, s.nb)
         \o (IF i < s.k THEN <<>> ELSE StmtEvents(s.nb + 1, s.nb + s.na))
         \o <<Ev("after", 1), Ev("post", i)>>
         \o ContinuePasses(s, i + 1)

C10_ContinueStaysInGuard ==
    (scn.shape = "loop" /\ scn.x = "continue") =>
        /\ IsPrefix(trace, ContinuePasses(scn, 0))
        /\ status # "returned"
        /\ status = "done" => trace = ContinuePasses(scn, 0)

C10_Witness ==
    /\ scn.shape = "loop" /\ scn.x = "continue" /\ scn.kind = "SCOPE"
    /\ scn.n = 2 /\ scn.k = 2 /\ scn.nb = 1 /\ scn.na = 1
    /\ status = "done"
    /\ trace = <<Ev("before", 1), Ev("stmt", 1), Ev("after", 1), Ev("post", 0),
                 Ev("before", 1), Ev("stmt", 1), Ev("after", 1), Ev("post", 1),
                 <<"end", <<>> >> >>

\* ---------------------------------------------------------------- C11
\* C11: the three loops of SE350_USING(decl, after){block} behave as the two
\* loops of SE350_SCOPE(before, after){block} with the initializer of decl
\* as before: on every way out the same events in the same order and the
\* same way of ending; the initializer is evaluated once, before the block,
\* and no statement of the block runs twice.
AsScope(s) == [s EXCEPT !.kind = "SCOPE"]

C11_UsingIsScope ==
    (scn.kind = "USING" /\ scn.shape \in {"plain", "loop", "nested"}) =>
        LET ref == Run(Start(AsScope(scn)))
        IN /\ IsPrefix(trace, ref.trace)
           /\ Halted => trace = ref.trace /\ status = ref.status
           /\ scn.shape # "loop" =>
                 /\ Num("before", 1) <= 1
                 /\ \A i \in StmtAt :
                       /\ \E b \in At("before", 1) : b < i
                       /\ Num("stmt", trace[i][2][1]) = 1

C11_Witness ==
    /\ scn.kind = "USING" /\ scn.shape = "nested" /\ scn.outer = "EXIT"
    /\ scn.x = "continue" /\ scn.nb = 1 /\ scn.na = 1
    /\ status = "done"
    /\ trace = <<Ev("outer_stmt", 1), Ev("before", 1), Ev("stmt", 1), Ev("after", 1),
                 Ev("outer_stmt", 2), Ev("after", 2), Ev("post", 0)>>

\* ---------------------------------------------------------------- C12
\* C12: a use of a guard terminates, and its block is executed exactly once
\* per activation, never zero times and never twice, although the construct
\* is made of for loops.  The first statement of a block that has one is
\* seen once per activation: once in all when the guard is activated once,
\* once per pass (before the statement that ends the pass) in a loop.
\* The runs checked for termination: every shape, macro and way out, with one
\* statement on each side of the point of exit and, for a guard in a loop,
\* the most passes with the exit taken in none or in the first of them.
\* A function is a single thread of control and no step waits for anything,
\* so a step that can be taken is taken: weak fairness of Next.
LiveScenarios ==
    {s \in Scenarios :
        /\ s.shape # "main"
        /\ s.nb = 1 /\ s.na = 1
        /\ s.shape = "loop" => s.n = MaxIter /\ s.k <= 1}

FairInit == Init /\ scn \in LiveScenarios

FairSpec == FairInit /\ [][Next]_vars /\ WF_vars(Next)

BlockOnce ==
    /\ (scn.shape \in Single /\ scn.nb >= 1) =>
          /\ Num("stmt", 1) <= 1
          /\ (Halted \/ FollowAt # {}) => Num("stmt", 1) = 1
    /\ (scn.shape = "loop" /\ scn.nb >= 1) =>
          /\ \A p \in PostAt : Cardinality({i \in At("stmt", 1) : i < p}) = trace[p][2][1] + 1
          /\ Num("stmt", 1) <= Cardinality(PostAt) + 1
          /\ status = "done" => Num("stmt", 1) = scn.n

C12_TerminatesBlockOnce == []BlockOnce /\ <>Halted

C12_Witness ==
    /\ scn.shape = "loop" /\ scn.kind = "USING" /\ scn.x = "loopbreak"
    /\ scn.n = MaxIter /\ scn.k = 1 /\ scn.nb = 1 /\ scn.na = 1
    /\ status = "done"
    /\ Num("stmt", 1) = MaxIter

\* ---------------------------------------------------------------- C13
\* C13: an activation goes NOT_ENTERED -> BEFORE_DONE -> AFTER_DONE and
\* nowhere else.  On every way out, return included, the events of one
\* activation are a prefix of (before, statements of the block, after):
\* before comes first and once, after comes last and once and never without
\* before, and nothing of the activation follows after.  The same holds of
\* the guard around it.  The events of the activation of pass i of a loop
\* are those with i post events ahead of them.
IsGuardEvent(e) == e[1] \in {"before", "after", "stmt", "use"} /\ e # Ev("before", 2) /\ e # Ev("after", 2)

PassOf(p) == Cardinality({q \in PostAt : q < p})

\* The events of guard 1 in pass i (pass 0 when there is no loop).
Activation(i) ==
    LET idx == {p \in 1..Len(trace) : IsGuardEvent(trace[p]) /\ PassOf(p) = i}
        F[p \in 0..Len(trace)] ==
            IF p = 0 THEN <<>>
            ELSE IF p \in idx THEN Append(F[p - 1], trace[p]) ELSE F[p - 1]
    IN F[Len(trace)]

\* before first (when the macro has one), after last, each at most once.
InOrder(a, hasBefore, b, e) ==
    /\ \A j \in 1..Len(a) :
          /\ a[j] = b => j = 1
          /\ a[j] = e => j = Len(a)
    /\ (hasBefore /\ a # <<>>) => a[1] = b

IsOuterEvent(e) == e[1] # "post"
OuterActivation == SelectSeq(trace, IsOuterEvent)

C13_StateMachine ==
    /\ scn.shape \in Single \cup {"loop"} =>
          \A i \in 0..MaxIter :
             InOrder(Activation(i), scn.kind # "EXIT", Ev("before", 1), Ev("after", 1))
    /\ scn.shape \in {"nested", "stacked"} =>
          InOrder(OuterActivation, scn.outer # "EXIT", Ev("before", 2), Ev("after", 2))

C13_Witness ==
    /\ scn.shape = "loop" /\ scn.kind = "SCOPE" /\ scn.x = "return"
    /\ scn.n = 2 /\ scn.k = 2 /\ scn.nb = 1
    /\ status = "returned"
    /\ Activation(0) = <<Ev("before", 1), Ev("stmt", 1)>>


\* ---------------------------------------------------------------- C14
\* The increment that carries after_expr is the only one built with the
\* comma operator: (void)(after_expr), _se350_loop_has_run = 1.
AfterPending ==
    /\ status = "running"
    /\ Top(cfg).t = "loop"
    /\ Top(cfg).phase = "incr"
    /\ Top(cfg).f.incr.k = "comma"

\* The flag of the innermost guard in scope.
Flag(e) == Lookup(e, has_run)

\* What the pending after_expr will be seen to do.
PendingAfter == Eval(Top(cfg).f.incr.a, env, <<>>).tr

\* The block of the guard whose after_expr is pending was left by
\* SE350_SCOPE_BREAK: only guard 1 has one, in a loop only in the first k passes.
ByBreak ==
    /\ scn.x = "break"
    /\ scn.shape = "loop" => Lookup(env, "i") < scn.k
    /\ scn.shape \in {"nested", "stacked"} => PendingAfter = <<Ev("after", 1)>>

FlagStep ==
    /\ AfterPending =>
          /\ Flag(env) = 0 <=> ByBreak
          /\ Flag(env') = 1
          /\ trace' = trace \o PendingAfter
    /\ \A j \in Slots(env, has_run) \cap Slots(env', has_run) :
          env[j].v = 1 => env'[j].v = 1

StackedBreakTrace(s) ==
    <<Ev("before", 2), Ev("before", 1), <<"use", <<2, 1>> >> >>
    \o StmtEvents(1, s.nb)
    \o <<Ev("after", 1), Ev("after", 2), Ev("post", 0)>>

C15_StackedBreak ==
    (scn.shape = "stacked" /\ scn.x = "break") =>
        /\ IsPrefix(trace, StackedBreakTrace(scn))
        /\ status # "returned"
        /\ status = "done" => trace = StackedBreakTrace(scn)
        /\ \A i \in StmtAt : trace[i][2][1] <= scn.nb

C15_Witness ==
    /\ scn.shape = "stacked" /\ scn.x = "break" /\ scn.nb = 1 /\ scn.na = 1
    /\ status = "done"
    /\ trace = <<Ev("before", 2), Ev("before", 1), <<"use", <<2, 1>> >>,
                 Ev("stmt", 1), Ev("after", 1), Ev("after", 2), Ev("post", 0)>>


\* ---------------------------------------------------------------- C16
\* C16: a guard used inside the block of another has a flag of its own,
\* though both are named _se350_loop_has_run.  When the inner guard runs to
\* its end by fall-through or by SE350_SCOPE_BREAK, the flag of the outer
\* guard stays false, the rest of the outer block runs, and the events are
\* before_outer, before_inner, after_inner, after_outer, each exactly once.
OuterFlag(e) == e[MinOf(Slots(e, has_run))].v

BeforeOf(kind, id) == IF kind = "EXIT" THEN <<>> ELSE <<Ev("before", id)>>

NestedTrace(s) ==
    BeforeOf(s.outer, 2) \o <<Ev("outer_stmt", 1)>>
    \o BeforeOf(s.kind, 1)
    \o StmtEvents(1, IF s.x = "break" THEN s.nb ELSE s.nb + s.na)
    \o <<Ev("after", 1), Ev("outer_stmt", 2), Ev("after", 2), Ev("post", 0)>>

C16_NestedFlags ==
    (scn.shape = "nested" /\ scn.x \in {"fall", "break"}) =>
        /\ Cardinality(Slots(env, has_run)) <= 2
        /\ Cardinality(Slots(env, has_run)) = 2 => OuterFlag(env) = 0
        /\ (Num("after", 1) = 1 /\ Num("outer_stmt", 2) = 0) => OuterFlag(env) = 0
        /\ IsPrefix(trace, NestedTrace(scn))
        /\ status # "returned"
        /\ status = "done" => trace = NestedTrace(scn)

\* The inner guard was left by SE350_SCOPE_BREAK and is over; the outer flag
\* is still false and the rest of the outer block is about to run.
C16_Witness ==
    /\ scn.shape = "nested" /\ scn.kind = "SCOPE" /\ scn.outer = "SCOPE"
    /\ scn.x = "break" /\ scn.nb = 1 /\ scn.na = 1
    /\ Cardinality(Slots(env, has_run)) = 1
    /\ OuterFlag(env) = 0
    /\ trace = <<Ev("before", 2), Ev("outer_stmt", 1), Ev("before", 1),
                 Ev("stmt", 1), Ev("after", 1)>>


\* ---------------------------------------------------------------- C17
\* C17: within one activation the flag never goes from true back to false,
\* the statements of a guarded block run only while the flag of their guard
\* is false, and a step that takes control out of a construct other than by
\* return (the flag of the construct goes out of scope) finds that flag true.
IsBlockEvent(e) == e[1] \in {"stmt", "outer_stmt", "use"}

Monotone ==
    \A j \in Slots(env, has_run) \cap Slots(env', has_run) :
        env[j].v = 1 => env'[j].v = 1

BlockWhileFalse ==
    (Len(trace') > Len(trace) /\ IsBlockEvent(trace'[Len(trace')])) => Flag(env) = 0

LeavesWhenTrue ==
    status' # "returned" =>
        \A j \in Slots(env, has_run) \ Slots(env', has_run) : env[j].v = 1

C17_FlagDiscipline == [][Monotone /\ BlockWhileFalse /\ LeavesWhenTrue]_vars

====
